---- MODULE Spec2Model ----
(***************************************************************************)
(* Model of the PID issuer's credential formatting and delivery code:      *)
(*   app/route_eidasnode.py  getlightresponse   (specification Spec)       *)
(*   app/formatter_func.py   sdjwtFormatter     (specification SpecSdJwt)  *)
(*   app/formatter_func.py   mdocFormatter, cbor2elems (SpecMdoc)          *)
(***************************************************************************)
EXTENDS Integers, Sequences, FiniteSets, TLC

VARIABLES
    \* ---- getlightresponse (route_eidasnode.py) ----
    pc,            \* position of the handler in the current request
    form_keys,     \* request.form.keys()
    session,       \* flask session of the request
    b, e,          \* (b, e) = handle_response(token)
    v,             \* (v, l) = validate_mandatory_args(e, ...)
    r, r1,         \* answers of formatter/cbor and formatter/sd-jwt
    encCalls,      \* the results of the eccEnc calls made by this request
    calls,         \* the collaborators called by this request, in order
    redirects,     \* the redirects returned by this request
    nreq,          \* requests handled so far
    \* ---- sdjwtFormatter (formatter_func.py) ----
    PID,           \* argument of the current sdjwtFormatter call
    env,           \* what the call draws from its environment (uuid4, timezone, JWK library)
    sdjwt,         \* outcome of the current call ("pending" before it ran)
    seeds,         \* the seed handed to get_jwk by each call so far
    \* ---- mdocFormatter / cbor2elems (formatter_func.py) ----
    mdata,         \* argument "data" of the current mdocFormatter call
    mcountry,      \* argument "country"
    menv,          \* what the mdoc library draws: the shuffle and the salt
    mdoc,          \* outcome of mdocFormatter ("pending" before it ran)
    elems,         \* outcome of cbor2elems(mdoc) ("pending" before it ran)
    mcount         \* mdocFormatter calls so far

routeVars == <<pc, form_keys, session, b, e, v, r, r1, encCalls, calls, redirects, nreq>>
sdVars    == <<PID, env, sdjwt, seeds>>
mdocVars  == <<mdata, mcountry, menv, mdoc, elems, mcount>>
vars      == <<routeVars, sdVars, mdocVars>>

\* ------------------------------------------------------------------ bounds
MaxRequests == 2
MaxCalls == 2
MaxMdocCalls == 2

\* ------------------------------------------------------- byte strings
\* A byte string / text: an atom under a stack of encoding layers, outermost first.
Bytes(a) == [layers |-> <<>>, atom |-> a]
EmptyStr == Bytes("")
Layer(op, key, eph) == [op |-> op, key |-> key, eph |-> eph]

\* base64.urlsafe_b64encode / base64.b64encode
urlsafe_b64encode(x) == [x EXCEPT !.layers = <<Layer("b64url", "", "")>> \o @]
b64encode(x) == [x EXCEPT !.layers = <<Layer("b64", "", "")>> \o @]
\* base64.urlsafe_b64decode: undoes one url-safe layer
urlsafe_b64decode(x) ==
    IF x.layers # <<>> /\ Head(x.layers).op = "b64url"
    THEN [x EXCEPT !.layers = Tail(@)]
    ELSE [x EXCEPT !.layers = <<Layer("invalid", "", "")>> \o @]

\* =====================================================================
\* getlightresponse: route /eidasnode/lightresponse (route_eidasnode.py)
\* =====================================================================
Versions == {"0.1", "0.2"}
Countries == {"FC", "PT"}
Certificates == {"certA", "certB"}
EphemeralKeys == {"k1", "k2"}
MdocPayloads == {"mdocA", "mdocB"}
SdJwtPayloads == {"sdjwtA"}
FormatterErrorCodes == {401, 501}

\* cfgservice.eidasnode_pid_attributes: the mandatory PID attributes
eidasnode_pid_attributes == {"CurrentFamilyName", "CurrentGivenName", "DateOfBirth"}
\* the attribute sets handle_response may deliver
AttributeSets ==
    { [a \in K |-> Bytes("value")] :
        K \in { eidasnode_pid_attributes,
                eidasnode_pid_attributes \cup {"PlaceOfBirth"},
                {"CurrentFamilyName", "DateOfBirth"},
                {} } }

\* validate_mandatory_args(args, mandatory): are all mandatory keys present
validate_mandatory_args(args, mandatory) == mandatory \subseteq DOMAIN args

\* redirect_getpid(version, returnURL, error, fields): the redirect sent back
redirect_getpid(version, returnURL, error, fields) ==
    [version |-> version, returnURL |-> returnURL, error |-> error, fields |-> fields]

\* eccEnc(pubKey, msg): ECIES; returns (ciphertext, nonce, authTag, ephemeral public key).
\* eph is the ephemeral key the call generates.
eccEnc(cert, msg, eph) ==
    << [msg EXCEPT !.layers = <<Layer("aead", cert.atom, eph)>> \o @],
       [layers |-> <<Layer("nonce", "", eph)>>, atom |-> ""],
       [msg EXCEPT !.layers = <<Layer("tag", cert.atom, eph)>> \o @],
       [x |-> [layers |-> <<Layer("x", "", eph)>>, atom |-> ""],
        y |-> [layers |-> <<Layer("y", "", eph)>>, atom |-> ""]] >>

\* pubkeyDER(x, y): the raw concatenated coordinates of a public key
pubkeyDER(x, y) == [layers |-> <<Layer("xy", "", "")>> \o x.layers \o y.layers, atom |-> ""]

NoAnswer == [error_code |-> -1, mdoc |-> EmptyStr]
NoAnswer1 == ("error_code" :> -1) @@ ("sd-jwt" :> EmptyStr)

CborAnswers ==
    { [error_code |-> 0, mdoc |-> urlsafe_b64encode(Bytes(m))] : m \in MdocPayloads }
    \cup { [error_code |-> c, mdoc |-> EmptyStr] : c \in FormatterErrorCodes }
SdJwtAnswers ==
    { ("error_code" :> 0) @@ ("sd-jwt" :> Bytes(s)) : s \in SdJwtPayloads }
    \cup { ("error_code" :> c) @@ ("sd-jwt" :> EmptyStr) : c \in FormatterErrorCodes }

Sessions ==
    { [version |-> ver, returnURL |-> "returnURL", country |-> c,
       device_publickey |-> "devkey", certificate |-> urlsafe_b64encode(Bytes(cert))] :
        ver \in Versions, c \in Countries, cert \in Certificates }

\* a request arrives: its form and its session
Arrive(keys, s) ==
    /\ form_keys = keys
    /\ session = s
    /\ pc = "start"
    /\ b = FALSE /\ e = EmptyStr /\ v = FALSE
    /\ r = NoAnswer /\ r1 = NoAnswer1
    /\ encCalls = <<>> /\ calls = <<>> /\ redirects = <<>>

Return(resp) == /\ redirects' = Append(redirects, resp)
                /\ pc' = "done"

\* lines 97-100: the token check
CheckToken ==
    /\ pc = "start"
    /\ IF ~ ("token" \in form_keys)
       THEN Return(redirect_getpid(session.version, session.returnURL, 302, <<>>))
       ELSE pc' = "handle_response" /\ UNCHANGED redirects
    /\ UNCHANGED <<form_keys, session, b, e, v, r, r1, encCalls, calls, nreq>>

\* lines 102-104: (b, e) = handle_response(token)
HandleResponse ==
    /\ pc = "handle_response"
    /\ calls' = Append(calls, "handle_response")
    /\ \/ /\ b' = FALSE /\ e' = Bytes("error_str")
          /\ Return(redirect_getpid(session.version, session.returnURL, 303,
                                    << <<"error_str", e'>> >>))
       \/ /\ b' = TRUE /\ e' \in AttributeSets
          /\ pc' = "validate" /\ UNCHANGED redirects
    /\ UNCHANGED <<form_keys, session, v, r, r1, encCalls, nreq>>

\* lines 105-111: validation of the mandatory attributes
Validate ==
    /\ pc = "validate"
    /\ calls' = Append(calls, "validate_mandatory_args")
    /\ v' = validate_mandatory_args(e, eidasnode_pid_attributes)
    /\ IF ~ v'
       THEN Return(redirect_getpid(session.version, session.returnURL, 304, <<>>))
       ELSE pc' = "cbor" /\ UNCHANGED redirects
    /\ UNCHANGED <<form_keys, session, b, e, r, r1, encCalls, nreq>>

\* mutant: a failed mdoc build does not stop the request
FormatterCbor_NoStop ==
    /\ pc = "cbor"
    /\ calls' = Append(calls, "formatter/cbor")
    /\ r' \in CborAnswers
    /\ pc' = "sd-jwt" /\ UNCHANGED redirects
    /\ UNCHANGED <<form_keys, session, b, e, v, r1, encCalls, nreq>>

\* lines 113-116: r = json_post(formatter/cbor)
FormatterCbor ==
    /\ pc = "cbor"
    /\ calls' = Append(calls, "formatter/cbor")
    /\ r' \in CborAnswers
    /\ IF ~ (r'.error_code = 0)
       THEN Return(redirect_getpid(session.version, session.returnURL, r'.error_code, <<>>))
       ELSE pc' = "sd-jwt" /\ UNCHANGED redirects
    /\ UNCHANGED <<form_keys, session, b, e, v, r1, encCalls, nreq>>

\* mutant: a failed sd-jwt build still returns the mdoc that was built
FormatterSdJwt_Partial ==
    /\ pc = "sd-jwt"
    /\ calls' = Append(calls, "formatter/sd-jwt")
    /\ r1' \in SdJwtAnswers
    /\ IF ~ (r1'["error_code"] = 0)
       THEN Return(redirect_getpid(session.version, session.returnURL, r1'["error_code"],
                                   << <<"mdoc", r.mdoc>> >>))
       ELSE pc' = "deliver" /\ UNCHANGED redirects
    /\ UNCHANGED <<form_keys, session, b, e, v, r, encCalls, nreq>>

\* lines 118-121: r1 = json_post(formatter/sd-jwt)
FormatterSdJwt ==
    /\ pc = "sd-jwt"
    /\ calls' = Append(calls, "formatter/sd-jwt")
    /\ r1' \in SdJwtAnswers
    /\ IF ~ (r1'["error_code"] = 0)
       THEN Return(redirect_getpid(session.version, session.returnURL, r1'["error_code"], <<>>))
       ELSE pc' = "deliver" /\ UNCHANGED redirects
    /\ UNCHANGED <<form_keys, session, b, e, v, r, encCalls, nreq>>

\* line 124: mdoc from urlsafe_b64encode to b64encode
MdocB64 == b64encode(urlsafe_b64decode(r.mdoc))

\* line 129: the answer for version 0.1, not ciphered
PlainFields ==
    << <<"mdoc", urlsafe_b64encode(MdocB64)>>, <<"nonce", EmptyStr>>,
       <<"authTag", EmptyStr>>, <<"ciphertextPubKey", EmptyStr>>,
       <<"sd_jwt", r1["sd-jwt"]>> >>

\* lines 134-139: the answer built from encryptedMsg
CipheredFields(encryptedMsg) ==
    << <<"mdoc", urlsafe_b64encode(encryptedMsg[1])>>,
       <<"nonce", urlsafe_b64encode(encryptedMsg[2])>>,
       <<"authTag", urlsafe_b64encode(encryptedMsg[3])>>,
       <<"ciphertextPubKey",
         urlsafe_b64encode(pubkeyDER(encryptedMsg[4].x, encryptedMsg[4].y))>>,
       <<"sd_jwt", r1["sd-jwt"]>> >>

\* mutant: the version test inverted
NotCiphered_Inverted == session.version # "0.1"

\* line 128: is the result left unciphered
NotCiphered == session.version = "0.1"

\* lines 123-139: the delivery of both credentials
Deliver ==
    /\ pc = "deliver"
    /\ IF NotCiphered
       THEN /\ Return(redirect_getpid(session.version, session.returnURL, 0, PlainFields))
            /\ UNCHANGED <<encCalls, calls>>
       ELSE \E eph \in EphemeralKeys :
              LET encryptedMsg == eccEnc(urlsafe_b64decode(session.certificate), MdocB64, eph)
              IN /\ calls' = Append(calls, "eccEnc")
                 /\ encCalls' = Append(encCalls, encryptedMsg)
                 /\ Return(redirect_getpid(session.version, session.returnURL, 0,
                                           CipheredFields(encryptedMsg)))
    /\ UNCHANGED <<form_keys, session, b, e, v, r, r1, nreq>>

\* the next request to the route
NewRequest ==
    /\ pc = "done"
    /\ nreq < MaxRequests
    /\ nreq' = nreq + 1
    /\ pc' = "start"
    /\ form_keys' \in {{"token"}, {}}
    /\ session' \in Sessions
    /\ b' = FALSE /\ e' = EmptyStr /\ v' = FALSE
    /\ r' = NoAnswer /\ r1' = NoAnswer1
    /\ encCalls' = <<>> /\ calls' = <<>> /\ redirects' = <<>>

\* =====================================================================
\* sdjwtFormatter (formatter_func.py)
\* =====================================================================
PidNamespace == "eu.europa.ec.eudiw.pid.1"
None == "None"

\* a dict key: a plain key, or one wrapped in SDObj (selectively disclosable)
Key(n) == [sd |-> FALSE, name |-> n]
SDObj(n) == [sd |-> TRUE, name |-> n]
EmptyDict == [k \in {} |-> None]

\* cfgcountries.supported_countries[country]: the country's signing key
supported_countries ==
    [c \in Countries |->
        [pid_mdoc_privkey |-> IF c = "FC" THEN "privkey_FC.pem" ELSE "privkey_PT.pem",
         pid_mdoc_cert |-> IF c = "FC" THEN "cert_FC.der" ELSE "cert_PT.der"]]

\* load_yaml_settings("app/sd-jwt_files/settings.yml"): one file for every country
settings ==
    [key_settings |->
        [issuer_key |-> [kty |-> "EC", crv |-> "P-256", d |-> "settings.yml", x |-> EmptyStr, y |-> EmptyStr],
         holder_key |-> [kty |-> "EC", crv |-> "P-256", d |-> "settings.yml", x |-> EmptyStr, y |-> EmptyStr]]]

\* hashlib.sha256() fed with the chunks "updates", then hexdigest and int(.., 16)
sha256_int(updates) == [digest_of |-> updates]

\* get_jwk(jwk_kwargs, no_randomness, seed): with no_randomness the keys are the given ones
get_jwk(jwk_kwargs, no_randomness, seed) ==
    IF no_randomness
    THEN [issuer_key |-> jwk_kwargs.issuer_key, holder_key |-> jwk_kwargs.holder_key]
    ELSE [issuer_key |-> [jwk_kwargs.issuer_key EXCEPT !.d = "generated"],
          holder_key |-> [jwk_kwargs.holder_key EXCEPT !.d = "generated"]]

\* days from 1970-01-01 to the civil date <<y, m, d>>
DaysFromCivil(date) ==
    LET y == IF date[2] <= 2 THEN date[1] - 1 ELSE date[1]
        era == y \div 400
        yoe == y - era * 400
        mp == IF date[2] > 2 THEN date[2] - 3 ELSE date[2] + 9
        doy == (153 * mp + 2) \div 5 + date[3] - 1
        doe == yoe * 365 + yoe \div 4 - yoe \div 100 + doy
    IN era * 146097 + doe - 719468

\* DatestringFormatter(date): int(strptime(date).timestamp() / 86400); the naive
\* datetime is read in the local time zone, tz hours east of UTC
DatestringFormatter(date, tz) == (DaysFromCivil(date) * 86400 - tz * 3600) \div 86400

\* DATA_sd_jwt(PID): every entry of the dict under an SDObj key
DATA_sd_jwt(attrs) == [k \in {SDObj(i) : i \in DOMAIN attrs} |-> attrs[k.name]]

\* a PEM public key on a curve, and serialization.load_pem_public_key
PemPublicKey(curve, id) == [layers |-> <<Layer("pem", curve, id)>>, atom |-> ""]
load_pem_public_key(pem) == [curve |-> Head(pem.layers).key, id |-> Head(pem.layers).eph]
\* public_numbers().x.to_bytes(...), public_numbers().y.to_bytes(...)
CoordX(pub) == [layers |-> <<Layer("x", "", pub.id)>>, atom |-> ""]
CoordY(pub) == [layers |-> <<Layer("y", "", pub.id)>>, atom |-> ""]

\* lines 209-214: curve_map.get(curve_name)
curve_identifier(curve_name) ==
    CASE curve_name = "secp256r1" -> "P-256"
      [] curve_name = "secp384r1" -> "P-384"
      [] curve_name = "secp521r1" -> "P-521"
      [] OTHER -> None

\* line 179: the evidence entry of the verification block
disclosure_pid_data(evidence) == SDObj("evidence") :> evidence

\* mutant: the assurance level put under an SDObj key
verification_SdAssurance(evidence) ==
    (Key("trust_framework") :> "eidas") @@ (SDObj("assurance_level") :> "high")
    @@ disclosure_pid_data(evidence)

\* lines 167-181: datafinal before the claims are added
verification(evidence) ==
    (Key("trust_framework") :> "eidas") @@ (Key("assurance_level") :> "high")
    @@ disclosure_pid_data(evidence)

\* lines 183-199: JWT_PID_DATA, the first two claim groups
JWT_PID_DATA(pid_claims) ==
    LET primeira_chave == pid_claims.keys[1]
        segunda_chave == pid_claims.keys[2]
    IN (Key(primeira_chave) :> DATA_sd_jwt(pid_claims.val[primeira_chave]))
       @@ (Key(segunda_chave) :> DATA_sd_jwt(pid_claims.val[segunda_chave]))

\* lines 155-204: the claim tree handed to the issuer
ClaimTree(P, en) ==
    LET pid_data == P.data
        PID_Claims_data == pid_data.claims.val[PidNamespace]
        evidence == pid_data.evidence[1]
    IN (Key("iss") :> evidence.source.organization_name)
       @@ (Key("jti") :> en.uuid4)
       @@ (Key("iat") :> DatestringFormatter(PID_Claims_data["issuance_date"], en.tz))
       @@ (Key("exp") :> DatestringFormatter(PID_Claims_data["expiry_date"], en.tz))
       @@ (Key("status") :> "validation status URL")
       @@ (Key("type") :> P.doctype)
       @@ (Key("verified_claims") :>
             ((Key("verification") :> verification(evidence))
              @@ (Key("claims") :> JWT_PID_DATA(pid_data.claims))))

\* lines 230-247: jwk_kwargs
jwk_kwargs(public_key) ==
    [issuer_key |-> [kty |-> "EC", crv |-> "P-256", d |-> "Ur2bNKuBPOrAaxsRnbSH6hIhmNTxSGXshDSUD1a1y7g",
                     x |-> EmptyStr, y |-> EmptyStr],
     holder_key |-> [kty |-> "EC", crv |-> curve_identifier(public_key.curve), d |-> "",
                     x |-> b64encode(CoordX(public_key)), y |-> b64encode(CoordY(public_key))]]

\* line 137: the issuer key handed to SDJWTIssuer
demo_keys(seed) == get_jwk(settings.key_settings, TRUE, seed)

\* lines 133-135: the seed
Seed == sha256_int(<<>>)

Raised(err) ==
    [status |-> "raised", error |-> err, claims |-> EmptyDict,
     issuer_key |-> settings.key_settings.issuer_key,
     holder_key |-> settings.key_settings.holder_key, seed |-> Seed]

\* sdjwtFormatter(PID): the whole call, in the order of the code
sdjwtFormatter(P, en) ==
    LET groups == P.data.claims
        public_key == load_pem_public_key(urlsafe_b64decode(P.device_publickey))
        holder_key == get_jwk(jwk_kwargs(public_key), TRUE, Seed)
    IN IF PidNamespace \notin DOMAIN groups.val THEN Raised("KeyError")
       ELSE IF ~ ({"issuance_date", "expiry_date"} \subseteq DOMAIN groups.val[PidNamespace])
            THEN Raised("KeyError")
       ELSE IF Len(groups.keys) < 2 THEN Raised("IndexError")
       ELSE IF curve_identifier(public_key.curve) = None /\ en.jwk_null_crv = "raise"
            THEN Raised("InvalidJWKValue")
       ELSE [status |-> "issued", error |-> "", claims |-> ClaimTree(P, en),
             issuer_key |-> demo_keys(Seed).issuer_key,
             holder_key |-> holder_key.holder_key, seed |-> Seed]

\* ---------------------------------------------------------- sdjwtFormatter calls
GroupAttrs(g, withDates) ==
    IF g = PidNamespace
    THEN IF withDates
         THEN [a \in {"family_name", "issuance_date", "expiry_date"} |->
                 CASE a = "family_name" -> <<0, 0, 0>>
                   [] a = "issuance_date" -> <<2024, 1, 1>>
                   [] OTHER -> <<2029, 1, 1>>]
         ELSE [a \in {"family_name"} |-> <<0, 0, 0>>]
    ELSE IF g = "eu.europa.ec.eudiw.pid.opt"
         THEN [a \in {"age_over_18", "nationality"} |-> <<1, 1, 1>>]
         ELSE [a \in {"resident_city"} |-> <<2, 2, 2>>]

\* the ordered dicts PID["data"]["claims"] may be: their keys in insertion order
ClaimGroupOrders ==
    { <<>>,
      <<PidNamespace>>,
      <<"eu.europa.ec.eudiw.pid.opt">>,
      <<PidNamespace, "eu.europa.ec.eudiw.pid.opt">>,
      <<"eu.europa.ec.eudiw.pid.opt", PidNamespace>>,
      <<PidNamespace, "eu.europa.ec.eudiw.pid.opt", "eu.europa.ec.eudiw.pid.ext">>,
      <<"eu.europa.ec.eudiw.pid.ext", "eu.europa.ec.eudiw.pid.opt", PidNamespace>> }

ClaimGroups ==
    { [keys |-> s, val |-> [g \in {s[i] : i \in DOMAIN s} |-> GroupAttrs(g, wd)]] :
        s \in ClaimGroupOrders, wd \in BOOLEAN }

HolderCurves == {"secp256r1", "secp384r1", "secp521r1", "secp256k1"}

PIDInputs ==
    { [version |-> "0.2", country |-> c, doctype |-> PidNamespace,
       device_publickey |-> urlsafe_b64encode(PemPublicKey(cv, "holder")),
       data |-> [evidence |-> << [type |-> "eu.europa.ec.eudiw.pid.1",
                                  source |-> [organization_name |-> "Test PID Issuer",
                                              country_code |-> c]] >>,
                 claims |-> g]] :
        c \in Countries, cv \in HolderCurves, g \in ClaimGroups }

SdEnvs ==
    [uuid4 : {"uuid-1", "uuid-2"}, tz : {0, 1}, jwk_null_crv : {"raise", "accept"}]

Pending == [Raised("") EXCEPT !.status = "pending"]

\* one call of sdjwtFormatter on the current argument
SdJwtCall ==
    /\ sdjwt.status = "pending"
    /\ sdjwt' = sdjwtFormatter(PID, env)
    /\ seeds' = Append(seeds, sdjwt'.seed)
    /\ UNCHANGED <<PID, env>>

\* the next call, with its own argument
SdJwtNextCall ==
    /\ sdjwt.status # "pending"
    /\ Len(seeds) < MaxCalls
    /\ PID' \in PIDInputs
    /\ env' \in SdEnvs
    /\ sdjwt' = Pending
    /\ UNCHANGED seeds

\* =====================================================================
\* mdocFormatter and cbor2elems (formatter_func.py)
\* =====================================================================
CBORTag(t, val) == [tag |-> t, value |-> val]
\* a value that is no CBORTag
Plain(val) == [tag |-> -1, value |-> val]
IsCBORTag(x) == x.tag # -1
cbor_dumps(x) == [enc |-> "cbor", of |-> x]
cbor_loads(x) == x.of
doc_b64encode(x) == [enc |-> "b64url", of |-> x]
doc_b64decode(x) == x.of

\* the elements whose value is a calendar date
DateValued(id) == id \in {"birth_date", "issuance_date", "expiry_date", "issue_date"}

RECURSIVE SetToSeq(_)
SetToSeq(S) == IF S = {} THEN <<>>
               ELSE LET x == CHOOSE y \in S : TRUE IN <<x>> \o SetToSeq(S \ {x})
Reverse(s) == [i \in 1..Len(s) |-> s[Len(s) + 1 - i]]

\* MdocCborIssuer.new: every element of every namespace becomes one issuer-signed
\* item (tag 24 over the encoded record); a date-valued element is tagged 1004
IssuerSignedItems(values, en) ==
    LET ids == IF en.shuffle = "fwd" THEN SetToSeq(DOMAIN values)
               ELSE Reverse(SetToSeq(DOMAIN values))
    IN [i \in 1..Len(ids) |->
          CBORTag(24, cbor_dumps(
            [digestID |-> i - 1, random |-> en.salt, elementIdentifier |-> ids[i],
             elementValue |-> IF DateValued(ids[i]) THEN CBORTag(1004, values[ids[i]])
                              ELSE Plain(values[ids[i]])]))]

\* mdocFormatter(data, doctype, country, device_publickey)
mdocFormatter(data, doctype, country, device_publickey, en) ==
    IF PidNamespace \notin DOMAIN data
       \/ ~ ({"issuance_date", "expiry_date"} \subseteq DOMAIN data[PidNamespace])
    THEN [status |-> "raised", error |-> "KeyError", mdoc |-> doc_b64encode(cbor_dumps(<<>>))]
    ELSE [status |-> "ok", error |-> "",
          mdoc |-> doc_b64encode(cbor_dumps(
            [version |-> "1.0", status |-> 0,
             documents |-> <<
               [docType |-> doctype,
                issuerSigned |->
                  [nameSpaces |-> [n \in DOMAIN data |-> IssuerSignedItems(data[n], en)],
                   issuerAuth |->
                     [alg |-> "ES256", kid |-> "mdocIssuer",
                      key |-> supported_countries[country].pid_mdoc_privkey,
                      cert |-> supported_countries[country].pid_mdoc_cert,
                      validity |-> [issuance_date |-> data[PidNamespace]["issuance_date"],
                                    expiry_date |-> data[PidNamespace]["expiry_date"]],
                      deviceKeyInfo |-> device_publickey]]] >>]))]

\* lines 111-117: one element of a namespace; Python raises AttributeError on
\* .value of a value that is no CBORTag
DecodeElement(item) ==
    LET val == cbor_loads(item.value)
        id == val.elementIdentifier
    IN IF id = "birth_date" \/ id = "expiry_date" \/ id = "issuance_date"
       THEN IF IsCBORTag(val.elementValue)
            THEN [ok |-> TRUE, pair |-> <<id, Plain(val.elementValue.value)>>]
            ELSE [ok |-> FALSE, pair |-> <<id, val.elementValue>>]
       ELSE [ok |-> TRUE, pair |-> <<id, val.elementValue>>]

\* cbor2elems(mdoc)
cbor2elems(m) ==
    LET namespaces == cbor_loads(doc_b64decode(m)).documents[1].issuerSigned.nameSpaces
        dec == [n \in DOMAIN namespaces |->
                  [i \in 1..Len(namespaces[n]) |-> DecodeElement(namespaces[n][i])]]
    IN IF \E n \in DOMAIN dec : \E i \in 1..Len(dec[n]) : ~ dec[n][i].ok
       THEN [status |-> "raised", error |-> "AttributeError", d |-> [n \in {} |-> <<>>]]
       ELSE [status |-> "ok", error |-> "",
             d |-> [n \in DOMAIN dec |-> [i \in 1..Len(dec[n]) |-> dec[n][i].pair]]]

ElementValueOf(id) ==
    CASE id = "family_name" -> "Doe"
      [] id = "given_name" -> "Jane"
      [] id = "birth_date" -> "1990-01-01"
      [] id = "issuance_date" -> "2024-01-01"
      [] id = "expiry_date" -> "2034-01-01"
      [] OTHER -> "2024-02-02"

MdlNamespace == "org.iso.18013.5.1"
PidElementSets ==
    { {"family_name", "given_name", "birth_date", "issuance_date", "expiry_date"},
      {"family_name", "birth_date", "issuance_date", "expiry_date", "issue_date"},
      {"family_name", "birth_date"} }
MdlElementSets == { {}, {"family_name"}, {"family_name", "issue_date"} }

MdocInputs ==
    { [n \in (IF withPid THEN {PidNamespace} ELSE {}) \cup (IF ms = {} THEN {} ELSE {MdlNamespace}) |->
         [id \in (IF n = PidNamespace THEN ps ELSE ms) |-> ElementValueOf(id)]] :
        ps \in PidElementSets, ms \in MdlElementSets, withPid \in BOOLEAN }

MdocEnvs == [shuffle : {"fwd", "rev"}, salt : {"salt-1", "salt-2"}]

MdocPending == [status |-> "pending", error |-> "", mdoc |-> doc_b64encode(cbor_dumps(<<>>))]
ElemsPending == [status |-> "pending", error |-> "", d |-> [n \in {} |-> <<>>]]

\* one call of mdocFormatter on the current argument
MdocFormat ==
    /\ mdoc.status = "pending"
    /\ mdoc' = mdocFormatter(mdata, PidNamespace, mcountry, "devkey", menv)
    /\ UNCHANGED <<mdata, mcountry, menv, elems, mcount>>

\* cbor2elems on the mdoc that was built
MdocDecode ==
    /\ mdoc.status = "ok"
    /\ elems.status = "pending"
    /\ elems' = cbor2elems(mdoc.mdoc)
    /\ UNCHANGED <<mdata, mcountry, menv, mdoc, mcount>>

\* the next mdocFormatter call, with its own argument
MdocNextCall ==
    /\ mdoc.status = "raised" \/ elems.status # "pending"
    /\ mcount < MaxMdocCalls
    /\ mcount' = mcount + 1
    /\ mdata' \in MdocInputs
    /\ mcountry' \in Countries
    /\ menv' \in MdocEnvs
    /\ mdoc' = MdocPending
    /\ elems' = ElemsPending

\* =====================================================================
\* specifications
\* =====================================================================
RouteIdle ==
    /\ nreq = 1 /\ Arrive({"token"}, CHOOSE s \in Sessions : TRUE)
SdIdle ==
    /\ PID = CHOOSE P \in PIDInputs : TRUE
    /\ env = CHOOSE en \in SdEnvs : TRUE
    /\ sdjwt = Pending /\ seeds = <<>>
MdocIdle ==
    /\ mdata = CHOOSE d \in MdocInputs : TRUE
    /\ mcountry = "FC"
    /\ menv = CHOOSE en \in MdocEnvs : TRUE
    /\ mdoc = MdocPending /\ elems = ElemsPending /\ mcount = 1

\* the route handling requests
Init ==
    /\ nreq = 1 /\ \E keys \in {{"token"}, {}} : \E s \in Sessions : Arrive(keys, s)
    /\ SdIdle /\ MdocIdle
Next ==
    \/ CheckToken /\ UNCHANGED <<sdVars, mdocVars>>
    \/ HandleResponse /\ UNCHANGED <<sdVars, mdocVars>>
    \/ Validate /\ UNCHANGED <<sdVars, mdocVars>>
    \/ FormatterCbor /\ UNCHANGED <<sdVars, mdocVars>>
    \/ FormatterSdJwt /\ UNCHANGED <<sdVars, mdocVars>>
    \/ Deliver /\ UNCHANGED <<sdVars, mdocVars>>
    \/ NewRequest /\ UNCHANGED <<sdVars, mdocVars>>
Spec == Init /\ [][Next]_vars

\* sdjwtFormatter called on arbitrary arguments
InitSdJwt ==
    /\ RouteIdle /\ MdocIdle
    /\ PID \in PIDInputs /\ env \in SdEnvs
    /\ sdjwt = Pending /\ seeds = <<>>
NextSdJwt ==
    \/ SdJwtCall /\ UNCHANGED <<routeVars, mdocVars>>
    \/ SdJwtNextCall /\ UNCHANGED <<routeVars, mdocVars>>
SpecSdJwt == InitSdJwt /\ [][NextSdJwt]_vars

\* mdocFormatter followed by cbor2elems, on arbitrary arguments
InitMdoc ==
    /\ RouteIdle /\ SdIdle
    /\ mdata \in MdocInputs /\ mcountry \in Countries /\ menv \in MdocEnvs
    /\ mdoc = MdocPending /\ elems = ElemsPending /\ mcount = 1
NextMdoc ==
    \/ MdocFormat /\ UNCHANGED <<routeVars, sdVars>>
    \/ MdocDecode /\ UNCHANGED <<routeVars, sdVars>>
    \/ MdocNextCall /\ UNCHANGED <<routeVars, sdVars>>
SpecMdoc == InitMdoc /\ [][NextMdoc]_vars

\* =====================================================================
\* properties
\* =====================================================================
HasField(resp, n) == \E i \in DOMAIN resp.fields : resp.fields[i][1] = n
FieldValue(resp, n) == resp.fields[CHOOSE i \in DOMAIN resp.fields : resp.fields[i][1] = n][2]
Called(step) == \E i \in DOMAIN calls : calls[i] = step
IsPrefix(s, t) == Len(s) <= Len(t) /\ \A i \in DOMAIN s : s[i] = t[i]
HasLayer(x, op) == \E i \in DOMAIN x.layers : x.layers[i].op = op

\* C1: issuance is all-or-nothing. A redirect with error code 0 is produced only if
\* both formatter/cbor and formatter/sd-jwt answered error_code 0, and it carries an
\* 'mdoc' and an 'sd_jwt' field; a redirect with a non-zero error code carries neither
\* (an mdoc that was built is not returned when the sd-jwt build fails).
C1_AllOrNothing ==
    \A i \in DOMAIN redirects :
        LET resp == redirects[i]
        IN /\ resp.error = 0 =>
                /\ r.error_code = 0 /\ r1["error_code"] = 0
                /\ HasField(resp, "mdoc") /\ HasField(resp, "sd_jwt")
                /\ FieldValue(resp, "mdoc").atom = r.mdoc.atom
                /\ FieldValue(resp, "sd_jwt") = r1["sd-jwt"]
           /\ resp.error # 0 => ~ HasField(resp, "mdoc") /\ ~ HasField(resp, "sd_jwt")

\* C1 witness: the mdoc was built, the sd-jwt build failed, and the redirect was sent
C1_Witness ==
    /\ pc = "done" /\ Len(redirects) = 1
    /\ r.error_code = 0 /\ r.mdoc # EmptyStr
    /\ Called("formatter/sd-jwt") /\ r1["error_code"] # 0

\* C9: the mdoc is encrypted exactly when the session version is not "0.1". For "0.1"
\* the success redirect carries the unencrypted mdoc with empty nonce, authTag and
\* ciphertextPubKey and eccEnc is never called; otherwise its 'mdoc' is the ciphertext
\* of the one eccEnc call and nonce, authTag, ciphertextPubKey are the other three
\* outputs of that call. The sd_jwt is returned unencrypted in both cases.
C9_EncryptedUnlessV01 ==
    /\ session.version = "0.1" => encCalls = <<>> /\ ~ Called("eccEnc")
    /\ \A i \in DOMAIN redirects :
        LET resp == redirects[i]
        IN resp.error = 0 =>
            /\ FieldValue(resp, "sd_jwt") = r1["sd-jwt"]
            /\ ~ HasLayer(FieldValue(resp, "sd_jwt"), "aead")
            /\ IF session.version = "0.1"
               THEN /\ ~ HasLayer(FieldValue(resp, "mdoc"), "aead")
                    /\ urlsafe_b64decode(FieldValue(resp, "mdoc")) =
                           b64encode(urlsafe_b64decode(r.mdoc))
                    /\ FieldValue(resp, "nonce") = EmptyStr
                    /\ FieldValue(resp, "authTag") = EmptyStr
                    /\ FieldValue(resp, "ciphertextPubKey") = EmptyStr
               ELSE /\ Len(encCalls) = 1
                    /\ HasLayer(encCalls[1][1], "aead")
                    /\ encCalls[1][1].atom = r.mdoc.atom
                    /\ urlsafe_b64decode(FieldValue(resp, "mdoc")) = encCalls[1][1]
                    /\ urlsafe_b64decode(FieldValue(resp, "nonce")) = encCalls[1][2]
                    /\ urlsafe_b64decode(FieldValue(resp, "authTag")) = encCalls[1][3]
                    /\ urlsafe_b64decode(FieldValue(resp, "ciphertextPubKey")) =
                           pubkeyDER(encCalls[1][4].x, encCalls[1][4].y)

\* C9 witness: a ciphered delivery
C9_Witness ==
    /\ pc = "done" /\ session.version # "0.1"
    /\ Len(redirects) = 1 /\ redirects[1].error = 0 /\ Len(encCalls) = 1

StepOrder ==
    <<"handle_response", "validate_mandatory_args", "formatter/cbor",
      "formatter/sd-jwt", "eccEnc">>

\* C10: getlightresponse works in a fixed order and stops at the first failure. A
\* missing token gives 302 before handle_response is called; a handle_response
\* failure gives 303 before the validation; a missing mandatory attribute gives 304
\* before any formatter call; formatter/cbor is called before formatter/sd-jwt, which
\* is called only if formatter/cbor answered 0; eccEnc is called only after both
\* formatters succeeded. Every step runs at most once and exactly one redirect is
\* returned.
C10_FixedOrder ==
    /\ IsPrefix(calls, StepOrder)
    /\ Len(redirects) <= 1
    /\ (pc = "done") <=> (Len(redirects) = 1)
    /\ Called("formatter/sd-jwt") => r.error_code = 0
    /\ Called("eccEnc") => r.error_code = 0 /\ r1["error_code"] = 0
    /\ pc = "done" =>
        /\ ~ ("token" \in form_keys) => redirects[1].error = 302 /\ calls = <<>>
        /\ ("token" \in form_keys /\ ~ b) =>
                redirects[1].error = 303 /\ calls = <<"handle_response">>
        /\ ("token" \in form_keys /\ b /\ ~ v) =>
                redirects[1].error = 304
                /\ calls = <<"handle_response", "validate_mandatory_args">>
        /\ (Called("formatter/cbor") /\ r.error_code # 0) =>
                redirects[1].error = r.error_code /\ ~ Called("formatter/sd-jwt")
        /\ (Called("formatter/sd-jwt") /\ r1["error_code"] # 0) =>
                redirects[1].error = r1["error_code"] /\ ~ Called("eccEnc")

\* C10 witness: a request that went through every step
C10_Witness == pc = "done" /\ calls = StepOrder /\ Len(redirects) = 1

\* ---------------------------------------------------------------- sdjwtFormatter
Issued == sdjwt.status = "issued"
InputGroups == PID.data.claims
VerifiedClaims == sdjwt.claims[Key("verified_claims")]
SdKeys(d) == {k \in DOMAIN d : k.sd}
PlainNames(d) == {k.name : k \in {kk \in DOMAIN d : ~ kk.sd}}
\* an argument that is well formed but for the holder key's curve
WellFormedGroups ==
    /\ Len(InputGroups.keys) >= 2
    /\ PidNamespace \in DOMAIN InputGroups.val
    /\ {"issuance_date", "expiry_date"} \subseteq DOMAIN InputGroups.val[PidNamespace]
HolderCurve == load_pem_public_key(urlsafe_b64decode(PID.device_publickey)).curve

\* C3: every attribute of the input becomes its own selectively disclosable claim.
\* For every claim group g of PID['data']['claims'], whatever the number of groups,
\* and every attribute a of g, the claim tree handed to the issuer holds
\* verified_claims.claims[g][a] under an SDObj marker with the original value, one
\* marker per attribute and none per group; no attribute is dropped.
C3_EveryAttributeDisclosable ==
    Issued =>
        \A g \in DOMAIN InputGroups.val :
            /\ Key(g) \in DOMAIN VerifiedClaims[Key("claims")]
            /\ \A a \in DOMAIN InputGroups.val[g] :
                /\ SDObj(a) \in DOMAIN VerifiedClaims[Key("claims")][Key(g)]
                /\ VerifiedClaims[Key("claims")][Key(g)][SDObj(a)] = InputGroups.val[g][a]

\* C4 as stated: in every claim tree built by sdjwtFormatter, iss, jti, iat, exp, type
\* and the whole verification block (trust_framework, assurance_level, evidence) are
\* always disclosed; only the entries under verified_claims.claims are selectively
\* disclosable.
C4_VerificationAlwaysDisclosed ==
    Issued =>
        /\ {"iss", "jti", "iat", "exp", "type"} \subseteq PlainNames(sdjwt.claims)
        /\ SdKeys(sdjwt.claims) = {}
        /\ SdKeys(VerifiedClaims) = {}
        /\ {"trust_framework", "assurance_level", "evidence"}
              \subseteq PlainNames(VerifiedClaims[Key("verification")])
        /\ SdKeys(VerifiedClaims[Key("verification")]) = {}

\* C4 amended: in every claim tree built by sdjwtFormatter, iss, jti, iat, exp, type
\* and the verification block's trust_framework and assurance_level are always
\* disclosed; the evidence block of the verification block is marked selectively
\* disclosable, as is every entry under the groups of verified_claims.claims, and
\* nothing else is.
C4_EvidenceDisclosable ==
    Issued =>
        /\ {"iss", "jti", "iat", "exp", "type"} \subseteq PlainNames(sdjwt.claims)
        /\ SdKeys(sdjwt.claims) = {}
        /\ SdKeys(VerifiedClaims) = {}
        /\ PlainNames(VerifiedClaims[Key("verification")]) = {"trust_framework", "assurance_level"}
        /\ SdKeys(VerifiedClaims[Key("verification")]) = {SDObj("evidence")}
        /\ VerifiedClaims[Key("verification")][SDObj("evidence")] = PID.data.evidence[1]
        /\ SdKeys(VerifiedClaims[Key("claims")]) = {}
        /\ \A g \in DOMAIN VerifiedClaims[Key("claims")] :
              PlainNames(VerifiedClaims[Key("claims")][g]) = {}

\* C4 witness: a credential was issued for two claim groups
C4_Witness ==
    /\ Issued /\ Len(InputGroups.keys) = 2
    /\ \E g \in DOMAIN VerifiedClaims[Key("claims")] :
          SdKeys(VerifiedClaims[Key("claims")][g]) # {}

\* C5: the SD-JWT is signed with the issuing country's private key: the issuer key
\* handed to the signer is the key the key provider resolves for the request's country.
C5_SignedWithCountryKey ==
    Issued => sdjwt.issuer_key.d = supported_countries[PID.country].pid_mdoc_privkey

\* C6: sdjwtFormatter fails with IncompleteAttributeSetError, and returns no
\* credential, whenever PID['data']['claims'] holds fewer than two claim groups.
C6_TypedIncompleteError ==
    (sdjwt.status # "pending" /\ Len(InputGroups.keys) < 2) =>
        sdjwt.status = "raised" /\ sdjwt.error = "IncompleteAttributeSetError"

\* C7: sdjwtFormatter fails with UnsupportedCurveError whenever the holder key's curve
\* is not secp256r1, secp384r1 or secp521r1; for these three the embedded holder key
\* carries P-256, P-384 or P-521; no SD-JWT is issued with an absent curve identifier.
C7_UnsupportedCurveError ==
    /\ Issued => sdjwt.holder_key.crv # None
    /\ (sdjwt.status # "pending" /\ WellFormedGroups) =>
        /\ HolderCurve \notin {"secp256r1", "secp384r1", "secp521r1"} =>
              sdjwt.status = "raised" /\ sdjwt.error = "UnsupportedCurveError"
        /\ HolderCurve = "secp256r1" => Issued /\ sdjwt.holder_key.crv = "P-256"
        /\ HolderCurve = "secp384r1" => Issued /\ sdjwt.holder_key.crv = "P-384"
        /\ HolderCurve = "secp521r1" => Issued /\ sdjwt.holder_key.crv = "P-521"

\* C8: randomness is independent per issuance: the seed one sdjwtFormatter call hands
\* to get_jwk is not the same fixed value that every other call hands to it.
C8_SeedNotShared ==
    Len(seeds) >= 2 => \E i, j \in DOMAIN seeds : seeds[i] # seeds[j]

====
